---------------------------- MODULE Spec2Model ----------------------------
(***************************************************************************)
(* Model of SCC5830/ex2/src/imagefiltering.py: run_filtering reads a       *)
(* method code, builds one filter from the input stream, applies it to the *)
(* image and normalizes the result.                                        *)
(*                                                                         *)
(* Conventions.  A numpy array is a sequence (1D) or a sequence of rows    *)
(* (2D); Python index i is TLA+ index i+1.  The input stream is a sequence *)
(* of lines, each line the sequence of its integer tokens.  The float      *)
(* thresholds of find_optimum_threshold are exact rationals <<num, den>>   *)
(* with den > 0.  An uncaught Python exception ends the run in             *)
(* pc = "error" with the exception's name in error.                        *)
(***************************************************************************)
EXTENDS Integers, Sequences, FiniteSets, TLC

VARIABLES
    pc,            \* position in run_filtering
    method,        \* the method code read by run_filtering
    stdin,         \* lines not yet consumed by input()
    img,           \* the image returned by imageio.imread
    filt,          \* class of the constructed filter, "none" before
    size,          \* self.size
    weights,       \* self.weights
    threshold,     \* self.threshold
    limiar_img,    \* the img argument of limiar_filter
    optimum_t,     \* local optimum_t of find_optimum_threshold (rational)
    new_t,         \* value returned by find_optimum_threshold (rational)
    filtered_img,  \* result of filt.apply_filter(img)
    normalized,    \* result of filt.normalize(filtered_img)
    error          \* name of the uncaught exception, "none" otherwise

vars == <<pc, method, stdin, img, filt, size, weights, threshold, limiar_img,
          optimum_t, new_t, filtered_img, normalized, error>>

---------------------------------------------------------------------------
(* Bounds of the explored inputs *)

MaxH == 2
MaxW == 2
MaxVal == 4
BigH == 3
BigW == 5
MaxCoef == 2
MaxK == 5
MaxSize == 3

---------------------------------------------------------------------------
(* Arithmetic helpers *)

Min(a, b) == IF a <= b THEN a ELSE b

Max(a, b) == IF a >= b THEN a ELSE b

\* int(x / y) of Python for integers x and y > 0: truncation toward zero
PyIntDiv(x, y) == IF x >= 0 THEN x \div y ELSE -((-x) \div y)

\* a > b for an integer a and a rational b
IntGtRat(a, b) == a * b[2] > b[1]

\* a - b <= 0.5 for rationals a, b
RatDiffLeqHalf(a, b) == 2 * (a[1] * b[2] - b[1] * a[2]) <= a[2] * b[2]

\* s[1] + ... + s[n]
RECURSIVE SumUpTo(_, _)
SumUpTo(s, n) == IF n = 0 THEN 0 ELSE s[n] + SumUpTo(s, n - 1)

SumSeq(s) == SumUpTo(s, Len(s))

---------------------------------------------------------------------------
(* numpy helpers *)

Rows(a) == Len(a)

Cols(a) == IF Len(a) = 0 THEN 0 ELSE Len(a[1])

\* the array with the elements f[1], ..., f[Len(f)], held as an explicit tuple
Arr(f) == f \o <<>>

\* np.zeros((n,))
Zeros1D(n) == Arr([i \in 1..n |-> 0])

\* np.reshape(img, H*W): row-major flattening
Flatten(a) ==
    Arr([k \in 1..(Rows(a) * Cols(a)) |->
            a[((k - 1) \div Cols(a)) + 1][((k - 1) % Cols(a)) + 1]])

\* np.reshape(v, (h, w))
Reshape2D(v, h, w) == Arr([i \in 1..h |-> Arr([j \in 1..w |-> v[(i - 1) * w + j]])])

\* np.flip of a 1D array
Flip1D(v) == Arr([i \in 1..Len(v) |-> v[Len(v) + 1 - i]])

\* np.flip(np.flip(w, 0), 1)
Flip2D(w) ==
    Arr([i \in 1..Rows(w) |->
            Arr([j \in 1..Cols(w) |-> w[Rows(w) + 1 - i][Cols(w) + 1 - j]])])

\* a slice bound x of Python on a dimension of length n
SliceIdx(x, n) == IF x < 0 THEN Max(x + n, 0) ELSE Min(x, n)

\* number of elements selected by [a:b] on a dimension of length n
SliceLen(a, b, n) == Max(SliceIdx(b, n) - SliceIdx(a, n), 0)

\* v[a:b]
Slice(v, a, b) == SubSeq(v, SliceIdx(a, Len(v)) + 1, SliceIdx(b, Len(v)))

\* m[a:b, c:d]
Slice2D(m, a, b, c, d) ==
    LET rs == Slice(m, a, b) IN Arr([i \in 1..Len(rs) |-> Slice(rs[i], c, d)])

\* numpy broadcasting of a source dimension onto a target dimension
Broadcastable(srcLen, dstLen) == srcLen = dstLen \/ srcLen = 1

\* v[a:b] = src, defined when Broadcastable(Len(src), SliceLen(a, b, Len(v)))
SetSlice(v, a, b, src) ==
    LET lo == SliceIdx(a, Len(v))
        hi == SliceIdx(b, Len(v))
    IN  Arr([i \in 1..Len(v) |->
                IF lo < i /\ i <= hi
                THEN (IF Len(src) = 1 THEN src[1] ELSE src[i - lo])
                ELSE v[i]])

\* the largest and the smallest of v[1], ..., v[n]
RECURSIVE MaxUpTo(_, _)
MaxUpTo(v, n) == IF n = 1 THEN v[1] ELSE Max(v[n], MaxUpTo(v, n - 1))

RECURSIVE MinUpTo(_, _)
MinUpTo(v, n) == IF n = 1 THEN v[1] ELSE Min(v[n], MinUpTo(v, n - 1))

\* np.max and np.min of a 2D array
ArrMax(a) == MaxUpTo(Flatten(a), Rows(a) * Cols(a))

ArrMin(a) == MinUpTo(Flatten(a), Rows(a) * Cols(a))


---------------------------------------------------------------------------
(* Reading the filter parameters *)

\* int(input()): the exception it raises on the pending lines, or "none"
ReadIntErr(lines) ==
    IF lines = <<>> THEN "EOFError"
    ELSE IF Len(Head(lines)) # 1 THEN "ValueError"
    ELSE "none"

\* the value of int(input()) when ReadIntErr(lines) = "none"
ReadIntVal(lines) == Head(lines)[1]

\* for i, value in enumerate(input().strip().split(' ')): row[i] = int(value)
\* on a zero row of length n: an empty line splits into [''] and int('')
\* raises ValueError; token number n+1 raises IndexError
ReadRowErr(lines, n) ==
    IF lines = <<>> THEN "EOFError"
    ELSE IF Len(Head(lines)) = 0 THEN "ValueError"
    ELSE IF Len(Head(lines)) > n THEN "IndexError"
    ELSE "none"

\* the row after the loop: supplied tokens first, the rest left at zero
ReadRowVal(lines, n) ==
    Arr([i \in 1..n |-> IF i <= Len(Head(lines)) THEN Head(lines)[i] ELSE 0])

\* for i in range(size): read row i; first exception of the k rows, or "none"
RECURSIVE ReadRowsErr(_, _, _)
ReadRowsErr(lines, k, n) ==
    IF k <= 0 THEN "none"
    ELSE IF ReadRowErr(lines, n) # "none" THEN ReadRowErr(lines, n)
    ELSE ReadRowsErr(Tail(lines), k - 1, n)

ReadRowsVal(lines, k, n) ==
    Arr([i \in 1..k |-> ReadRowVal(SubSeq(lines, i, Len(lines)), n)])

Fail(e) ==
    /\ pc' = "error"
    /\ error' = e

\* FilterFactory.init_filter, method == 1: LimiarFilter()
LimiarFilter_init ==
    /\ pc = "init_filter"
    /\ method = 1
    /\ IF ReadIntErr(stdin) # "none"
       THEN /\ Fail(ReadIntErr(stdin))
            /\ UNCHANGED <<stdin, filt, size, weights, threshold>>
       ELSE /\ threshold' = ReadIntVal(stdin)
            /\ stdin' = Tail(stdin)
            /\ filt' = "LimiarFilter"
            /\ pc' = "apply_filter"
            /\ UNCHANGED <<size, weights, error>>
    /\ UNCHANGED <<method, img, limiar_img, optimum_t, new_t, filtered_img, normalized>>

\* exception raised by Filter1D.__init__, or "none"
Filter1D_initErr(lines) ==
    IF ReadIntErr(lines) # "none" THEN ReadIntErr(lines)
    ELSE IF ReadIntVal(lines) < 0 THEN "ValueError"
    ELSE ReadRowErr(Tail(lines), ReadIntVal(lines))

\* FilterFactory.init_filter, method == 2: Filter1D()
Filter1D_init ==
    /\ pc = "init_filter"
    /\ method = 2
    /\ IF Filter1D_initErr(stdin) # "none"
       THEN /\ Fail(Filter1D_initErr(stdin))
            /\ UNCHANGED <<stdin, filt, size, weights>>
       ELSE /\ size' = ReadIntVal(stdin)
            /\ weights' = ReadRowVal(Tail(stdin), ReadIntVal(stdin))
            /\ stdin' = Tail(Tail(stdin))
            /\ filt' = "Filter1D"
            /\ pc' = "apply_filter"
            /\ UNCHANGED error
    /\ UNCHANGED <<method, img, threshold, limiar_img, optimum_t, new_t,
                   filtered_img, normalized>>

\* exception raised by LimiarFilter2D.__init__, or "none"
LimiarFilter2D_initErr(lines) ==
    IF ReadIntErr(lines) # "none" THEN ReadIntErr(lines)
    ELSE IF ReadIntVal(lines) < 0 THEN "ValueError"
    ELSE IF ReadRowsErr(Tail(lines), ReadIntVal(lines), ReadIntVal(lines)) # "none"
         THEN ReadRowsErr(Tail(lines), ReadIntVal(lines), ReadIntVal(lines))
    ELSE ReadIntErr(SubSeq(lines, ReadIntVal(lines) + 2, Len(lines)))

\* FilterFactory.init_filter, method == 3: LimiarFilter2D()
LimiarFilter2D_init ==
    /\ pc = "init_filter"
    /\ method = 3
    /\ IF LimiarFilter2D_initErr(stdin) # "none"
       THEN /\ Fail(LimiarFilter2D_initErr(stdin))
            /\ UNCHANGED <<stdin, filt, size, weights, threshold>>
       ELSE LET n == ReadIntVal(stdin) IN
            /\ size' = n
            /\ weights' = ReadRowsVal(Tail(stdin), n, n)
            /\ threshold' = ReadIntVal(SubSeq(stdin, n + 2, Len(stdin)))
            /\ stdin' = SubSeq(stdin, n + 3, Len(stdin))
            /\ filt' = "LimiarFilter2D"
            /\ pc' = "apply_filter"
            /\ UNCHANGED error
    /\ UNCHANGED <<method, img, limiar_img, optimum_t, new_t, filtered_img, normalized>>

\* FilterFactory.init_filter, method == 4: MedianFilter2D()
MedianFilter2D_init ==
    /\ pc = "init_filter"
    /\ method = 4
    /\ IF ReadIntErr(stdin) # "none"
       THEN /\ Fail(ReadIntErr(stdin))
            /\ UNCHANGED <<stdin, filt, size>>
       ELSE /\ size' = ReadIntVal(stdin)
            /\ stdin' = Tail(stdin)
            /\ filt' = "MedianFilter2D"
            /\ pc' = "apply_filter"
            /\ UNCHANGED error
    /\ UNCHANGED <<method, img, weights, threshold, limiar_img, optimum_t, new_t,
                   filtered_img, normalized>>

---------------------------------------------------------------------------
(* IMGFiltering: threshold search, limiar filter, normalization *)

\* the cells of a, row-major, with those failing img[i][j] > t (inG1) or
\* passing it (~inG1) replaced by zero
GroupCells(a, t, inG1) ==
    LET flat == Flatten(a)
    IN  Arr([k \in 1..Len(flat) |-> IF IntGtRat(flat[k], t) = inG1 THEN flat[k] ELSE 0])

GroupCount(a, t, inG1) ==
    LET flat == Flatten(a)
    IN  Cardinality({k \in 1..Len(flat) : IntGtRat(flat[k], t) = inG1})

\* new_t = (g1_sum/g1_count + g2_sum/g2_count) / 2.0, both counts non-zero
NewThreshold(a, t) ==
    LET g1_sum == SumSeq(GroupCells(a, t, TRUE))
        g1_count == GroupCount(a, t, TRUE)
        g2_sum == SumSeq(GroupCells(a, t, FALSE))
        g2_count == GroupCount(a, t, FALSE)
    IN  <<g1_sum * g2_count + g2_sum * g1_count, 2 * g1_count * g2_count>>

\* variant: the loop ends on |new_t - optimum_t| <= 0.5
Converged_abs(nt, t) == RatDiffLeqHalf(nt, t) /\ RatDiffLeqHalf(t, nt)

\* the test that ends the while loop: new_t - optimum_t <= 0.5
Converged(nt, t) == RatDiffLeqHalf(nt, t)

\* LimiarFilter.apply_filter up to the first iteration of the threshold loop
LimiarFilter_apply_filter ==
    /\ pc = "apply_filter"
    /\ filt = "LimiarFilter"
    /\ limiar_img' = img
    /\ optimum_t' = <<threshold, 1>>
    /\ pc' = "find_optimum_threshold"
    /\ UNCHANGED <<method, stdin, img, filt, size, weights, threshold, new_t,
                   filtered_img, normalized, error>>

\* variant: an empty group ends the search with the current threshold
find_optimum_threshold_guarded ==
    /\ pc = "find_optimum_threshold"
    /\ IF GroupCount(limiar_img, optimum_t, TRUE) = 0
          \/ GroupCount(limiar_img, optimum_t, FALSE) = 0
       THEN /\ new_t' = optimum_t
            /\ pc' = "limiar_filter"
            /\ UNCHANGED <<optimum_t, error>>
       ELSE IF Converged(NewThreshold(limiar_img, optimum_t), optimum_t)
       THEN /\ new_t' = NewThreshold(limiar_img, optimum_t)
            /\ pc' = "limiar_filter"
            /\ UNCHANGED <<optimum_t, error>>
       ELSE /\ optimum_t' = NewThreshold(limiar_img, optimum_t)
            /\ UNCHANGED <<pc, new_t, error>>
    /\ UNCHANGED <<method, stdin, img, filt, size, weights, threshold, limiar_img,
                   filtered_img, normalized>>

\* one iteration of the while loop of find_optimum_threshold; a float
\* division by a zero count raises ZeroDivisionError
find_optimum_threshold ==
    /\ pc = "find_optimum_threshold"
    /\ IF GroupCount(limiar_img, optimum_t, TRUE) = 0
          \/ GroupCount(limiar_img, optimum_t, FALSE) = 0
       THEN /\ Fail("ZeroDivisionError")
            /\ UNCHANGED <<optimum_t, new_t>>
       ELSE IF Converged(NewThreshold(limiar_img, optimum_t), optimum_t)
       THEN /\ new_t' = NewThreshold(limiar_img, optimum_t)
            /\ pc' = "limiar_filter"
            /\ UNCHANGED <<optimum_t, error>>
       ELSE /\ optimum_t' = NewThreshold(limiar_img, optimum_t)
            /\ UNCHANGED <<pc, new_t, error>>
    /\ UNCHANGED <<method, stdin, img, filt, size, weights, threshold, limiar_img,
                   filtered_img, normalized>>

\* variant: the cutoff itself maps to 1
Binarize_geq(a, t) ==
    Arr([i \in 1..Rows(a) |->
            Arr([j \in 1..Cols(a) |-> IF a[i][j] * t[2] >= t[1] THEN 1 ELSE 0])])

\* the binarization loop of limiar_filter for the cutoff t
Binarize(a, t) ==
    Arr([i \in 1..Rows(a) |->
            Arr([j \in 1..Cols(a) |-> IF IntGtRat(a[i][j], t) THEN 1 ELSE 0])])

\* limiar_filter after find_optimum_threshold has returned
limiar_filter ==
    /\ pc = "limiar_filter"
    /\ filtered_img' = Binarize(limiar_img, new_t)
    /\ pc' = "normalize"
    /\ UNCHANGED <<method, stdin, img, filt, size, weights, threshold, limiar_img,
                   optimum_t, new_t, normalized, error>>

\* results of casting the nan of 0/0 to int32, which depends on the platform
NanCast == {-2147483647 - 1, 0}

\* variant: the scale is pow(2, 8)
Normalized_256(a) ==
    LET imax == ArrMax(a)
        imin == ArrMin(a)
    IN  Arr([i \in 1..Rows(a) |-> Arr([j \in 1..Cols(a) |->
            PyIntDiv((a[i][j] - imin) * (2^8), imax - imin)])])

\* ((img-imin)/(imax-imin) * (pow(2, 8) - 1)).astype(np.int32), imax # imin.
\* The double-precision quotient times 255, truncated, equals the exact
\* floor of 255*(x-imin)/(imax-imin) for every imax-imin below 600.
Normalized(a) ==
    LET imax == ArrMax(a)
        imin == ArrMin(a)
    IN  Arr([i \in 1..Rows(a) |-> Arr([j \in 1..Cols(a) |->
            PyIntDiv((a[i][j] - imin) * (2^8 - 1), imax - imin)])])

\* IMGFiltering.normalize on the filtered image
normalize ==
    /\ pc = "normalize"
    /\ IF ArrMax(filtered_img) = ArrMin(filtered_img)
       THEN \E u \in NanCast :
                normalized' = Arr([i \in 1..Rows(filtered_img) |->
                                      Arr([j \in 1..Cols(filtered_img) |-> u])])
       ELSE normalized' = Normalized(filtered_img)
    /\ pc' = "done"
    /\ UNCHANGED <<method, stdin, img, filt, size, weights, threshold, limiar_img,
                   optimum_t, new_t, filtered_img, error>>

---------------------------------------------------------------------------
(* Filter1D *)

\* padding = int((self.size-1) / 2)
Padding(k) == PyIntDiv(k - 1, 2)

\* sum(np.multiply(w, v)) for 1D arrays of equal length
Dot1D(w, v) == SumSeq(Arr([i \in 1..Len(w) |-> w[i] * v[i]]))

\* the three slice assignments of create_circular_array broadcast
CircularOk(a, k) ==
    LET p == Padding(k)
        n == Rows(a) * Cols(a)
    IN  /\ Broadcastable(n, SliceLen(p, -p, n + 2 * p))
        /\ Broadcastable(Len(Slice(Flatten(a), -p, n)), SliceLen(0, p, n + 2 * p))
        /\ Broadcastable(Len(Slice(Flatten(a), 0, p)), SliceLen(-p, n + 2 * p, n + 2 * p))

\* Filter1D.create_circular_array when CircularOk
create_circular_array(a, k) ==
    LET p == Padding(k)
        aux == Flatten(a)
        n == Len(aux)
        s0 == Zeros1D(n + 2 * p)
        s1 == SetSlice(s0, p, -p, aux)
        s2 == SetSlice(s1, 0, p, Slice(aux, -p, n))
    IN  SetSlice(s2, -p, n + 2 * p, Slice(aux, 0, p))

\* the loop of Filter1D.apply_filter: k runs over range(padding, H*W + 1) and
\* writes result[k-1], the other cells of result keep the zero of np.zeros.
\* (k = 0 needs padding = 0, for which create_circular_array has raised.)
Convolve1D(a, w, k) ==
    LET p == Padding(k)
        n == Rows(a) * Cols(a)
        img_1D == create_circular_array(a, k)
        fw == Flip1D(w)
    IN  Arr([x \in 1..n |->
                IF p <= x /\ x <= n
                THEN Dot1D(fw, Slice(img_1D, x - 1, x + k - 1))
                ELSE 0])

\* Filter1D.apply_filter
Filter1D_apply_filter ==
    /\ pc = "apply_filter"
    /\ filt = "Filter1D"
    /\ IF ~CircularOk(img, size)
       THEN /\ Fail("ValueError")
            /\ UNCHANGED filtered_img
       ELSE /\ filtered_img' = Reshape2D(Convolve1D(img, weights, size), Rows(img), Cols(img))
            /\ pc' = "normalize"
            /\ UNCHANGED error
    /\ UNCHANGED <<method, stdin, img, filt, size, weights, threshold, limiar_img,
                   optimum_t, new_t, normalized>>

---------------------------------------------------------------------------
(* LimiarFilter2D *)

\* np.sum(np.multiply(w, v)) for 2D arrays of equal shape
Dot2D(w, v) == SumSeq(Arr([i \in 1..Rows(w) |-> Dot1D(w[i], v[i])]))

\* variant: the kernel is applied without the two flips
simple_filter_unflipped(a, w, k) ==
    LET p == Padding(k)
    IN  Arr([i \in 1..Rows(a) |-> Arr([j \in 1..Cols(a) |->
            IF /\ p <= i - 1 /\ i - 1 < Rows(a) - p
               /\ p <= j - 1 /\ j - 1 < Cols(a) - p
            THEN Dot2D(w, Slice2D(a, i - 1 - p, i + p, j - 1 - p, j + p))
            ELSE a[i][j]])])

\* LimiarFilter2D.simple_filter: cells i in range(padding, H - padding),
\* j in range(padding, W - padding) are replaced, the others keep np.copy(img)
simple_filter(a, w, k) ==
    LET p == Padding(k)
        fw == Flip2D(w)
    IN  Arr([i \in 1..Rows(a) |-> Arr([j \in 1..Cols(a) |->
            IF /\ p <= i - 1 /\ i - 1 < Rows(a) - p
               /\ p <= j - 1 /\ j - 1 < Cols(a) - p
            THEN Dot2D(fw, Slice2D(a, i - 1 - p, i + p, j - 1 - p, j + p))
            ELSE a[i][j]])])

\* LimiarFilter2D.apply_filter up to the first iteration of the threshold loop
LimiarFilter2D_apply_filter ==
    /\ pc = "apply_filter"
    /\ filt = "LimiarFilter2D"
    /\ limiar_img' = simple_filter(img, weights, size)
    /\ optimum_t' = <<threshold, 1>>
    /\ pc' = "find_optimum_threshold"
    /\ UNCHANGED <<method, stdin, img, filt, size, weights, threshold, new_t,
                   filtered_img, normalized, error>>

---------------------------------------------------------------------------
(* MedianFilter2D *)

RECURSIVE Insert(_, _)
Insert(x, s) ==
    IF s = <<>> THEN <<x>>
    ELSE IF x <= Head(s) THEN <<x>> \o s
    ELSE <<Head(s)>> \o Insert(x, Tail(s))

\* sorted(v)
RECURSIVE Sorted(_)
Sorted(v) == IF v = <<>> THEN <<>> ELSE Insert(Head(v), Sorted(Tail(v)))

\* aux_img = np.zeros(...); aux_img[padding:-padding, padding:-padding] = img
\* when the assignment broadcasts
PadZeros(a, p) ==
    LET h == Rows(a) + 2 * p
        w == Cols(a) + 2 * p
        rlo == SliceIdx(p, h)
        rhi == SliceIdx(-p, h)
        clo == SliceIdx(p, w)
        chi == SliceIdx(-p, w)
    IN  Arr([i \in 1..h |-> Arr([j \in 1..w |->
            IF rlo < i /\ i <= rhi /\ clo < j /\ j <= chi
            THEN a[IF Rows(a) = 1 THEN 1 ELSE i - rlo][IF Cols(a) = 1 THEN 1 ELSE j - clo]
            ELSE 0])])

PadZerosOk(a, p) ==
    /\ Broadcastable(Rows(a), SliceLen(p, -p, Rows(a) + 2 * p))
    /\ Broadcastable(Cols(a), SliceLen(p, -p, Cols(a) + 2 * p))

\* aux_img[i-padding:i+padding+1, j-padding:j+padding+1] of the median loop
Neighborhood(aux, i, j, p) == Slice2D(aux, i - p, i + p + 1, j - p, j + p + 1)

\* the exception raised by MedianFilter2D.apply_filter, or "none": the slice
\* assignment must broadcast, each neighborhood must reshape to size*size
\* and each written index must lie inside new_img
MedianErr(a, k) ==
    LET p == Padding(k)
        aux == PadZeros(a, p)
    IN  IF ~PadZerosOk(a, p) THEN "ValueError"
        ELSE IF \E i \in p..Rows(a), j \in p..Cols(a) :
                   Rows(Neighborhood(aux, i, j, p)) * Cols(Neighborhood(aux, i, j, p)) # k * k
             THEN "ValueError"
        ELSE IF \E i \in p..Rows(a), j \in p..Cols(a) :
                   i - p >= Rows(a) \/ j - p >= Cols(a)
             THEN "IndexError"
        ELSE "none"

\* the loop of MedianFilter2D.apply_filter: i runs over range(padding, H + 1),
\* j over range(padding, W + 1), writing new_img[i-padding][j-padding]; the
\* other cells of new_img keep the zero of np.zeros
Median2D(a, k) ==
    LET p == Padding(k)
        aux == PadZeros(a, p)
        middle == PyIntDiv(k * k - 1, 2)
    IN  Arr([r \in 1..Rows(a) |-> Arr([c \in 1..Cols(a) |->
            IF r - 1 + p <= Rows(a) /\ c - 1 + p <= Cols(a)
            THEN Sorted(Flatten(Neighborhood(aux, r - 1 + p, c - 1 + p, p)))[middle + 1]
            ELSE 0])])

\* MedianFilter2D.apply_filter
MedianFilter2D_apply_filter ==
    /\ pc = "apply_filter"
    /\ filt = "MedianFilter2D"
    /\ IF MedianErr(img, size) # "none"
       THEN /\ Fail(MedianErr(img, size))
            /\ UNCHANGED filtered_img
       ELSE /\ filtered_img' = Median2D(img, size)
            /\ pc' = "normalize"
            /\ UNCHANGED error
    /\ UNCHANGED <<method, stdin, img, filt, size, weights, threshold, limiar_img,
                   optimum_t, new_t, normalized>>

---------------------------------------------------------------------------
(* Inputs and specifications *)

\* every raster of at most MaxH x MaxW cells with values in 0..MaxVal
SmallRasters ==
    UNION {[1..h -> [1..w -> 0..MaxVal]] : h \in 1..MaxH, w \in 1..MaxW}

\* rasters of at most BigH x BigW cells whose values follow a linear ramp
\* modulo MaxVal + 1 (constant rasters, gradients, stripes)
RampRasters ==
    {[i \in 1..h |-> [j \in 1..w |-> (a * (i - 1) + b * (j - 1) + c) % (MaxVal + 1)]] :
        h \in 1..BigH, w \in 1..BigW, a \in 0..MaxCoef, b \in 0..MaxCoef, c \in 0..MaxCoef}

\* odd kernel sizes up to MaxK
OddSizes == {k \in 1..MaxK : k % 2 = 1}

\* lines holding the k weights of a 1D kernel, a ramp over -1..1
Kernel1DLines(k) ==
    {[i \in 1..k |-> ((a * (i - 1) + c) % 3) - 1] : a \in 0..MaxCoef, c \in 0..MaxCoef}

\* the k lines of a k x k kernel whose weights follow a ramp over -1..1
Kernel2DLines(k) ==
    {[i \in 1..k |-> [j \in 1..k |-> ((a * (i - 1) + b * (j - 1) + c) % 3) - 1]] :
        a \in 0..MaxCoef, b \in 0..MaxCoef, c \in 0..MaxCoef}

\* lines of 0..MaxSize+1 tokens, and streams of a size line followed by up to
\* MaxSize+1 such lines
TokenLines == {[i \in 1..n |-> 1] : n \in 0..(MaxSize + 1)}

ParamStreams ==
    {<<<<k>>>> \o rest :
        k \in -1..MaxSize,
        rest \in UNION {[1..r -> TokenLines] : r \in 0..(MaxSize + 1)}}

\* run_filtering after img and method were read
InitRun(m, lines, raster) ==
    /\ pc = "init_filter"
    /\ method = m
    /\ stdin = lines
    /\ img = raster
    /\ filt = "none"
    /\ size = 0
    /\ weights = <<>>
    /\ threshold = 0
    /\ limiar_img = <<>>
    /\ optimum_t = <<0, 1>>
    /\ new_t = <<0, 1>>
    /\ filtered_img = <<>>
    /\ normalized = <<>>
    /\ error = "none"

\* method 1 on every small raster with seeds from below the minimum to above
\* the maximum
InitLimiar ==
    \E seed \in -1..(MaxVal + 1), r \in SmallRasters : InitRun(1, <<<<seed>>>>, r)

NextLimiar ==
    \/ LimiarFilter_init
    \/ LimiarFilter_apply_filter
    \/ find_optimum_threshold
    \/ limiar_filter
    \/ normalize

SpecLimiar == InitLimiar /\ [][NextLimiar]_vars

\* one-row rasters of at most MaxH * MaxW cells in non-decreasing order: one
\* raster for every multiset of cell values, which is all the threshold
\* search depends on
SortedRasters ==
    {<<r>> : r \in {v \in UNION {[1..n -> 0..MaxVal] : n \in 1..(MaxH * MaxW)} :
                       \A i \in 1..(Len(v) - 1) : v[i] <= v[i + 1]}}

InitLimiarFair ==
    \E seed \in -1..(MaxVal + 1), r \in SortedRasters : InitRun(1, <<<<seed>>>>, r)

\* method 1 run to completion: the single thread keeps taking its next step
SpecLimiarFair == InitLimiarFair /\ [][NextLimiar]_vars /\ WF_vars(NextLimiar)

\* method 2 with well-formed parameters
InitFilter1D ==
    \E k \in OddSizes : \E w \in Kernel1DLines(k), r \in RampRasters :
        InitRun(2, <<<<k>>, w>>, r)

NextFilter1D ==
    \/ Filter1D_init
    \/ Filter1D_apply_filter
    \/ normalize

SpecFilter1D == InitFilter1D /\ [][NextFilter1D]_vars

\* method 3 with well-formed parameters
InitLimiar2D ==
    \E k \in OddSizes : \E w \in Kernel2DLines(k), seed \in 0..1, r \in RampRasters :
        InitRun(3, <<<<k>>>> \o w \o <<<<seed>>>>, r)

NextLimiar2D ==
    \/ LimiarFilter2D_init
    \/ LimiarFilter2D_apply_filter
    \/ find_optimum_threshold
    \/ limiar_filter
    \/ normalize

SpecLimiar2D == InitLimiar2D /\ [][NextLimiar2D]_vars

\* method 4 with well-formed parameters
InitMedian ==
    \E k \in OddSizes, r \in RampRasters : InitRun(4, <<<<k>>>>, r)

NextMedian ==
    \/ MedianFilter2D_init
    \/ MedianFilter2D_apply_filter
    \/ normalize

SpecMedian == InitMedian /\ [][NextMedian]_vars

\* the four constructors on arbitrary parameter streams
InitFactory ==
    \E m \in 1..4, lines \in ParamStreams : InitRun(m, lines, <<<<0>>>>)

NextFactory ==
    \/ LimiarFilter_init
    \/ Filter1D_init
    \/ LimiarFilter2D_init
    \/ MedianFilter2D_init

SpecFactory == InitFactory /\ [][NextFactory]_vars

---------------------------------------------------------------------------
(* Properties of the threshold search (SpecLimiar, SpecLimiarFair) *)

\* C1: when find_optimum_threshold returns, the returned value new_t and the
\* threshold optimum_t used for the final partition satisfy
\* |new_t - optimum_t| <= 0.5.
C1_ReturnedWithinHalf ==
    pc = "limiar_filter" =>
        /\ 2 * (new_t[1] * optimum_t[2] - optimum_t[1] * new_t[2]) <= new_t[2] * optimum_t[2]
        /\ 2 * (optimum_t[1] * new_t[2] - new_t[1] * optimum_t[2]) <= new_t[2] * optimum_t[2]

\* C6: once the search has returned the cutoff new_t, limiar_filter returns a
\* raster of the shape of its input in which a cell is 1 if the input cell is
\* strictly greater than new_t and 0 otherwise (a cell equal to new_t maps to
\* 0), so every cell is 0 or 1.
C6_BinaryByStrictCutoff ==
    pc \in {"normalize", "done"} =>
        /\ Rows(filtered_img) = Rows(limiar_img)
        /\ Cols(filtered_img) = Cols(limiar_img)
        /\ \A i \in 1..Rows(limiar_img), j \in 1..Cols(limiar_img) :
              /\ filtered_img[i][j] \in {0, 1}
              /\ filtered_img[i][j] = 1 <=> limiar_img[i][j] * new_t[2] > new_t[1]

\* a binarized raster holding a 1 and a 0 that comes from a cell equal to the
\* cutoff
C6_Witness ==
    /\ pc = "normalize"
    /\ \E i \in 1..Rows(limiar_img), j \in 1..Cols(limiar_img) :
          limiar_img[i][j] * new_t[2] = new_t[1] /\ filtered_img[i][j] = 0
    /\ \E i \in 1..Rows(limiar_img), j \in 1..Cols(limiar_img) : filtered_img[i][j] = 1

\* C7: an iteration of the search whose partition by the current threshold
\* leaves G1 (value > current) or G2 (value <= current) empty fails with an
\* error and returns no threshold; this covers every constant raster and,
\* on the first iteration, every seed below the minimum or at or above the
\* maximum of the raster.
C7_EmptyGroupFails ==
    [][LET cells == (1..Rows(limiar_img)) \X (1..Cols(limiar_img))
           G1 == {c \in cells : limiar_img[c[1]][c[2]] * optimum_t[2] > optimum_t[1]}
           G2 == {c \in cells : limiar_img[c[1]][c[2]] * optimum_t[2] <= optimum_t[1]}
           constant == \A c \in cells, d \in cells :
                          limiar_img[c[1]][c[2]] = limiar_img[d[1]][d[2]]
           belowMin == \A c \in cells : threshold < limiar_img[c[1]][c[2]]
           atOrAboveMax == \A c \in cells : threshold >= limiar_img[c[1]][c[2]]
       IN  (/\ pc = "find_optimum_threshold"
            /\ \/ G1 = {}
               \/ G2 = {}
               \/ constant
               \/ optimum_t = <<threshold, 1>> /\ (belowMin \/ atOrAboveMax))
           => (pc' = "error" /\ error' = "ZeroDivisionError" /\ new_t' = new_t)]_vars

\* the search has failed on a raster that is not constant, with a seed at or
\* above its maximum
C7_Witness ==
    /\ pc = "error"
    /\ error = "ZeroDivisionError"
    /\ \E i \in 1..Rows(limiar_img), j \in 1..Cols(limiar_img) :
          limiar_img[i][j] # limiar_img[1][1]
    /\ \A i \in 1..Rows(limiar_img), j \in 1..Cols(limiar_img) :
          threshold >= limiar_img[i][j]

\* C10 as stated: the loop terminates, each iteration that neither returns
\* nor fails raises the current threshold by more than 0.5, and the current
\* threshold never exceeds the maximum of the raster.
C10_CurrentNeverAboveMax ==
    /\ [](pc = "find_optimum_threshold" =>
            \E i \in 1..Rows(limiar_img), j \in 1..Cols(limiar_img) :
                optimum_t[1] <= limiar_img[i][j] * optimum_t[2])
    /\ [][(pc = "find_optimum_threshold" /\ pc' = "find_optimum_threshold") =>
            2 * (optimum_t'[1] * optimum_t[2] - optimum_t[1] * optimum_t'[2])
                > optimum_t'[2] * optimum_t[2]]_vars
    /\ <>(pc \in {"limiar_filter", "error"})

\* C10 amended: the loop terminates; each iteration that neither returns nor
\* fails raises the current threshold by more than 0.5 and assigns a
\* threshold that is at most the maximum of the raster (only the seed may
\* exceed it), so the search eventually returns a threshold or fails.
C10_Terminates ==
    /\ [][(pc = "find_optimum_threshold" /\ pc' = "find_optimum_threshold") =>
            /\ 2 * (optimum_t'[1] * optimum_t[2] - optimum_t[1] * optimum_t'[2])
                  > optimum_t'[2] * optimum_t[2]
            /\ \E i \in 1..Rows(limiar_img), j \in 1..Cols(limiar_img) :
                  optimum_t'[1] <= limiar_img[i][j] * optimum_t'[2]]_vars
    /\ <>(pc \in {"limiar_filter", "error"})

\* the loop has raised the threshold once and its next iteration raises it
\* again
C10_Witness ==
    /\ pc = "find_optimum_threshold"
    /\ optimum_t # <<threshold, 1>>
    /\ GroupCount(limiar_img, optimum_t, TRUE) > 0
    /\ GroupCount(limiar_img, optimum_t, FALSE) > 0
    /\ ~Converged(NewThreshold(limiar_img, optimum_t), optimum_t)

---------------------------------------------------------------------------
(* Properties of the filters *)

\* C2: for an odd kernel size K with padding p = (K-1)/2 <= N = H*W,
\* Filter1D.apply_filter returns an H x W raster whose flat index k holds the
\* sum over m in 0..K-1 of w[K-1-m] * x[(k - p + m) mod N]; no index is
\* skipped or left at zero.
C2_CircularConvolution ==
    (/\ filt = "Filter1D"
     /\ pc # "apply_filter"
     /\ Padding(size) <= Rows(img) * Cols(img))
    => LET n == Rows(img) * Cols(img)
           p == (size - 1) \div 2
           x == Flatten(img)
       IN  /\ pc # "error"
           /\ Rows(filtered_img) = Rows(img)
           /\ Cols(filtered_img) = Cols(img)
           /\ \A k \in 0..(n - 1) :
                 Flatten(filtered_img)[k + 1] =
                     SumSeq([m \in 1..size |->
                                weights[size + 1 - m] * x[((k - p + m - 1) % n) + 1]])

\* C3: for an odd kernel size K, MedianFilter2D.apply_filter returns an H x W
\* raster in which every cell (i, j), the last rows and columns included, is
\* the element at index (K*K-1)/2 of the ascending sort of the K x K
\* neighborhood centered at (i, j) in the raster zero-padded by (K-1)/2.
C3_MedianEveryCell ==
    (filt = "MedianFilter2D" /\ pc # "apply_filter")
    => LET p == (size - 1) \div 2
           padded(r, c) == IF r \in 1..Rows(img) /\ c \in 1..Cols(img) THEN img[r][c] ELSE 0
           hood(i, j) == [q \in 1..(size * size) |->
                             padded(i - p + ((q - 1) \div size), j - p + ((q - 1) % size))]
       IN  /\ pc # "error"
           /\ Rows(filtered_img) = Rows(img)
           /\ Cols(filtered_img) = Cols(img)
           /\ \A i \in 1..Rows(img), j \in 1..Cols(img) :
                 filtered_img[i][j] = Sorted(hood(i, j))[((size * size - 1) \div 2) + 1]

\* C4: MedianFilter2D.apply_filter with kernel size 1 completes without error
\* and returns a raster equal cell for cell to its input.
C4_MedianSizeOneIdentity ==
    (filt = "MedianFilter2D" /\ size = 1 /\ pc # "apply_filter")
    => (pc # "error" /\ filtered_img = img)

\* C5: simple_filter returns an H x W intermediate in which a cell whose row
\* or column lies within padding = (K-1)/2 of an edge equals the input cell,
\* and every other cell equals the sum of the products of its K x K input
\* neighborhood with the kernel flipped along both axes, taken from the input
\* values.
C5_SimpleFilter ==
    (filt = "LimiarFilter2D" /\ pc # "apply_filter")
    => LET p == (size - 1) \div 2
           h == Rows(img)
           w == Cols(img)
           interior(i, j) == /\ p + 1 <= i /\ i <= h - p
                             /\ p + 1 <= j /\ j <= w - p
           conv(i, j) == SumSeq([q \in 1..(size * size) |->
                            LET u == ((q - 1) \div size) + 1
                                v == ((q - 1) % size) + 1
                            IN  img[i - p - 1 + u][j - p - 1 + v]
                                    * weights[size + 1 - u][size + 1 - v]])
       IN  /\ Rows(limiar_img) = h
           /\ Cols(limiar_img) = w
           /\ \A i \in 1..h, j \in 1..w :
                 limiar_img[i][j] = IF interior(i, j) THEN conv(i, j) ELSE img[i][j]

\* a 3 x 3 kernel has replaced two adjacent interior cells of a raster while
\* a non-zero border cell was passed through
C5_Witness ==
    /\ filt = "LimiarFilter2D"
    /\ pc = "find_optimum_threshold"
    /\ size = 3
    /\ Rows(img) >= 3
    /\ Cols(img) >= 4
    /\ limiar_img[2][2] # img[2][2]
    /\ limiar_img[2][3] # img[2][3]
    /\ limiar_img[1][2] # 0

\* C8: constructing a filter fails, and yields no filter instance, whenever
\* the kernel size is non-positive or even or the number of supplied weights
\* differs from the declared size (K weights for method 2, K rows of K
\* weights for method 3); no filter is built with missing weights left at zero.
C8_InvalidParametersRejected ==
    [][LET k == stdin[1][1]
           badSize == method \in {2, 3, 4} /\ (k <= 0 \/ k % 2 = 0)
           badCount2 == method = 2 /\ (Len(stdin) < 2 \/ Len(stdin[2]) # k)
           badCount3 == method = 3 /\ \E i \in 1..k :
                            Len(stdin) < i + 1 \/ Len(stdin[i + 1]) # k
       IN  (/\ pc = "init_filter"
            /\ Len(stdin) >= 1
            /\ Len(stdin[1]) = 1
            /\ (badSize \/ badCount2 \/ badCount3))
           => (pc' = "error" /\ filt' = "none")]_vars

\* C9: when the maximum of the raster differs from its minimum, normalize
\* returns a raster of the same shape with every cell in 0..255, the cells
\* holding the minimum at 0, the cells holding the maximum at 255, and a
\* mapping that is monotone non-decreasing in the input value.
C9_NormalizedRange ==
    LET cells == (1..Rows(filtered_img)) \X (1..Cols(filtered_img))
        in(c) == filtered_img[c[1]][c[2]]
        out(c) == normalized[c[1]][c[2]]
        isMin(c) == \A d \in cells : in(c) <= in(d)
        isMax(c) == \A d \in cells : in(c) >= in(d)
    IN  (pc = "done" /\ \E c \in cells, d \in cells : in(c) # in(d))
        => /\ Rows(normalized) = Rows(filtered_img)
           /\ Cols(normalized) = Cols(filtered_img)
           /\ \A c \in cells :
                 /\ 0 <= out(c) /\ out(c) <= 255
                 /\ isMin(c) => out(c) = 0
                 /\ isMax(c) => out(c) = 255
           /\ \A c \in cells, d \in cells : in(c) <= in(d) => out(c) <= out(d)

\* a normalized raster with a cell strictly between 0 and 255 and an input
\* holding a negative value
C9_Witness ==
    /\ pc = "done"
    /\ \E i \in 1..Rows(normalized), j \in 1..Cols(normalized) :
          0 < normalized[i][j] /\ normalized[i][j] < 255
    /\ \E i \in 1..Rows(filtered_img), j \in 1..Cols(filtered_img) : filtered_img[i][j] < 0

============================================================================
